---- MODULE Spec2Model ----
(***************************************************************************)
(* Model of the audio acquisition / recording hand-off pipeline:          *)
(*   - the INMP441 SAI driver (src/SAI/drv_sai_inmp441.c): DMA completion  *)
(*     callbacks (interrupt context), the 4-slot frame ring, the counting  *)
(*     semaphore, inmp441_start / inmp441_stop / inmp441_read_frame;       *)
(*   - the audio worker (src/SAI/audio_process.h,                          *)
(*     audio_process_thread_entry): the recording state machine;          *)
(*   - the STT manager (src/STT/stt_manager.c): stt_manager_feed_recording *)
(*     and stt_thread_entry.                                               *)
(*                                                                         *)
(* Interrupt handlers are atomic with respect to threads; a thread may be  *)
(* preempted between any two of its steps.  A volatile read-modify-write   *)
(* made by a thread (dev->frame_count--) is a load step and a store step.  *)
(***************************************************************************)
EXTENDS Integers, Sequences, FiniteSets, TLC

(* ------------------------- program constants ------------------------- *)
AUDIO_BUFFER_COUNT == 4
AUDIO_FRAME_SIZE == 512
SAI_DMA_BUFFER_SIZE == 1024
INMP441_SAMPLE_RATE == 16000
VAD_HANGOVER_FRAMES == 10
STT_SAMPLE_RATE == 16000
STT_MIN_RECORD_MS == 500
VAD_MIN_RECORD_MS == 300
\* the detector's configuration; energies are in the model's energy unit
VAD_ENERGY_THRESHOLD_INIT == 20
VAD_CALIBRATION_FRAMES == 50
VAD_MIN_SPEECH_FRAMES == 3
VAD_THRESHOLD_RATIO == 3
\* VAD_ENERGY_SMOOTH_ALPHA and VAD_NOISE_FLOOR_ALPHA, in percent
VAD_ENERGY_SMOOTH_ALPHA == 30
VAD_NOISE_FLOOR_ALPHA == 5
MBOX_SIZE == 4
STT_MSG_NEW_RECORDING == 1

(* ------------------------------ bounds ------------------------------- *)
\* DMA completions that reach a running producer, when the interrupt may
\* preempt the reader anywhere (SpecDrv)
MaxDma == 6
\* frames captured when completions arrive at the worker's pace (Spec)
MaxPacedFrames == 19
\* HAL_SAI_ErrorCallback invocations
MaxDmaErrors == 1
\* capture runs (effective inmp441_start calls)
MaxRuns == 2
\* calls of stt_manager_feed_recording made by the abstract feeder
MaxFeeds == 5
\* frames given to the recording state machine (SpecRec)
MaxRecFrames == 49
\* frames given to the detector after its calibration (SpecVad)
MaxVadTail == 12

VARIABLES
    \* ---- inmp441_device_t g_inmp441_dev, and the DMA stream
    is_running, dma_armed, write_idx, read_idx, frame_count, sem, frames,
    total_frames, overrun_count, dma_errors,
    \* ---- audio_process_ctx_t g_audio_ctx and the worker's position
    a_running, a_pc, a_frame, a_fc, audio_state, rec_size, vad_hangover_count,
    speech_detected_cnt,
    \* ---- a call of stt_manager_feed_recording in progress
    f_pc, f_ptr, f_samples,
    \* ---- stt_manager_ctx_t g_stt_ctx and the STT thread's position
    stt_running, stt_state, s_pc, mbox, pcm_ptr, pcm_samples, data_ready,
    stt_lock, s_ptr, s_samples, s_ret, last_text,
    \* ---- vad_context_t g_vad_ctx
    v_noise_floor, v_threshold, v_smoothed, v_speech_cnt, v_silence_cnt,
    v_cal_cnt, v_calibrated,
    \* ---- history (not program state)
    h_run, h_base, h_nread, h_idle_irq, h_fed, h_pending, h_taken, h_nfeeds,
    h_speech, h_cause, h_dur, h_silent, h_nspeech, h_broken, h_loud, h_qual,
    h_energy,
    \* ---- dev->is_initialized, g_audio_system_initialized, and the last call
    \* an outside caller made with the value it returned (history)
    is_initialized, g_audio_system_initialized, api,
    \* ---- g_audio_ctx.recording.start_time
    rec_start_time,
    \* ---- the last direct call of the frame functions: argument and results
    d_out,
    \* ---- history: whether the producer was running when the STT thread
    \* paused it for the upload in progress
    h_was_running

drvVars == <<is_running, dma_armed, write_idx, read_idx, frame_count, sem,
             frames, total_frames, overrun_count, dma_errors>>
drvHist == <<h_run, h_base, h_nread, h_idle_irq>>
workerVars == <<a_running, a_pc, a_frame, a_fc, audio_state, rec_size,
                vad_hangover_count, speech_detected_cnt>>
feedVars == <<f_pc, f_ptr, f_samples>>
sttVars == <<stt_running, stt_state, s_pc, mbox, pcm_ptr, pcm_samples,
             data_ready, stt_lock, s_ptr, s_samples, s_ret, last_text>>
sttHist == <<h_fed, h_pending, h_taken, h_nfeeds>>
vadVars == <<v_noise_floor, v_threshold, v_smoothed, v_speech_cnt,
             v_silence_cnt, v_cal_cnt, v_calibrated>>
recHist == <<h_speech, h_cause, h_dur, h_silent, h_nspeech, h_broken>>
vadHist == <<h_loud, h_qual, h_energy>>
apiVars == <<is_initialized, g_audio_system_initialized, api>>
fnVars == <<d_out>>
pauseHist == <<h_was_running>>
vars == <<drvVars, drvHist, workerVars, feedVars, sttVars, sttHist, vadVars,
          recHist, vadHist, apiVars, rec_start_time, fnVars, pauseHist>>

(* ------------------------------ values ------------------------------- *)
NoFrame == [id |-> 0, run |-> 0, size |-> 0]
RT_NULL == "RT_NULL"
RecBuf == "recording.data"
OtherBuf == "other.data"
NoFeed == [ptr |-> RT_NULL, samples |-> 0]

\* uint32_t arithmetic.  A uint32_t value is kept as the representative of
\* its residue class mod 2^32 nearest to 0: -1 stands for 0xFFFFFFFF.
U32Dec(v) == v - 1
U32Ge(v, n) == v < 0 \/ v >= n
Min(a, b) == IF a < b THEN a ELSE b

(* ===================================================================== *)
(* drv_sai_inmp441.c                                                     *)
(* ===================================================================== *)

\* process_dma_data, line 302: the queue-full test on the (unlocked) counter
QueueFull_OffByOne(fc) == U32Ge(fc, AUDIO_BUFFER_COUNT + 1)
QueueFull(fc) == U32Ge(fc, AUDIO_BUFFER_COUNT)

\* process_dma_data, line 290: the producer's running guard
ProducerIdle_NoGuard == FALSE
ProducerIdle == ~is_running

\* process_dma_data(src, sample_count): runs in the DMA interrupt, atomically
\* with respect to every thread.  A frame is named by the value total_frames
\* takes when it is enqueued and by the capture run it was enqueued in.
process_dma_data(sample_count) ==
    IF ProducerIdle
    THEN UNCHANGED <<write_idx, frame_count, sem, frames, total_frames,
                     overrun_count>>
    ELSE IF QueueFull(frame_count)
    THEN /\ overrun_count' = overrun_count + 1
         /\ UNCHANGED <<write_idx, frame_count, sem, frames, total_frames>>
    ELSE /\ frames' = [frames EXCEPT ![write_idx] =
                          [id |-> total_frames + 1, run |-> h_run,
                           size |-> Min(sample_count \div 2, AUDIO_FRAME_SIZE)]]
         /\ write_idx' = (write_idx + 1) % AUDIO_BUFFER_COUNT
         /\ frame_count' = frame_count + 1
         /\ total_frames' = total_frames + 1
         /\ sem' = sem + 1
         /\ UNCHANGED overrun_count

\* history: a callback has fired since the producer was last stopped
IrqSeen ==
    /\ h_idle_irq' = (h_idle_irq \/ ~is_running)
    /\ UNCHANGED <<h_run, h_base, h_nread>>

HAL_SAI_RxHalfCpltCallback ==
    /\ process_dma_data(SAI_DMA_BUFFER_SIZE)
    /\ IrqSeen
    /\ UNCHANGED <<is_running, dma_armed, read_idx, dma_errors>>
    /\ UNCHANGED <<workerVars, feedVars, sttVars, sttHist>>
    /\ UNCHANGED <<vadVars, recHist, vadHist, apiVars, rec_start_time, fnVars, pauseHist>>

HAL_SAI_RxCpltCallback ==
    /\ process_dma_data(SAI_DMA_BUFFER_SIZE)
    /\ dma_armed' = IF is_running THEN TRUE ELSE dma_armed
    /\ IrqSeen
    /\ UNCHANGED <<is_running, read_idx, dma_errors>>
    /\ UNCHANGED <<workerVars, feedVars, sttVars, sttHist>>
    /\ UNCHANGED <<vadVars, recHist, vadHist, apiVars, rec_start_time, fnVars, pauseHist>>

\* HAL_SAI_ErrorCallback, lines 385-389: HAL_SAI_DMAStop, then
\* HAL_SAI_Receive_DMA only for a running producer
ErrorRearm_Always(running) == TRUE
ErrorRearm(running) == running

HAL_SAI_ErrorCallback ==
    /\ dma_errors < MaxDmaErrors
    /\ dma_errors' = dma_errors + 1
    /\ dma_armed' = ErrorRearm(is_running)
    /\ IrqSeen
    /\ UNCHANGED <<is_running, write_idx, read_idx, frame_count, sem, frames,
                   total_frames, overrun_count>>
    /\ UNCHANGED <<workerVars, feedVars, sttVars, sttHist>>
    /\ UNCHANGED <<vadVars, recHist, vadHist, apiVars, rec_start_time, fnVars, pauseHist>>

\* inmp441_start, lines 511-528: what a (re)start does to the device.  The
\* semaphore is not touched.
StartResets ==
    /\ write_idx' = 0
    /\ read_idx' = 0
    /\ frame_count' = 0
    /\ sem' = sem

\* hal_ok: whether HAL_SAI_Receive_DMA returns HAL_OK (line 521)
\* lines 505-512: the calls that return before touching the device
StartReturnsEarly_InitOnly == ~is_initialized
StartReturnsEarly == ~is_initialized \/ is_running

inmp441_start(hal_ok) ==
    IF StartReturnsEarly
    THEN UNCHANGED <<drvVars, drvHist>>
    ELSE /\ StartResets
         /\ UNCHANGED <<frames, total_frames, overrun_count, dma_errors>>
         /\ IF hal_ok
            THEN /\ dma_armed' = TRUE
                 /\ is_running' = TRUE
                 /\ h_run' = h_run + 1
                 /\ h_base' = total_frames
                 /\ h_nread' = 0
                 /\ h_idle_irq' = FALSE
            ELSE UNCHANGED <<dma_armed, is_running, h_run, h_base, h_nread,
                             h_idle_irq>>

inmp441_stop ==
    IF ~is_running
    THEN UNCHANGED <<drvVars, drvHist>>
    ELSE /\ dma_armed' = FALSE
         /\ is_running' = FALSE
         /\ UNCHANGED <<write_idx, read_idx, frame_count, sem, frames,
                        total_frames, overrun_count, dma_errors>>
         /\ UNCHANGED drvHist
(* ===================================================================== *)
(* audio_process.h: audio_process_thread_entry, and inmp441_read_frame   *)
(* as the worker executes it                                             *)
(* ===================================================================== *)

\* while (ctx->running), line 1455
W_Loop ==
    /\ a_pc = "loop"
    /\ a_pc' = IF a_running THEN "read" ELSE "exit"
    /\ UNCHANGED <<a_running, a_frame, a_fc, audio_state, rec_size,
                   vad_hangover_count, speech_detected_cnt>>
    /\ UNCHANGED <<drvVars, drvHist, feedVars, sttVars, sttHist>>
    /\ UNCHANGED <<vadVars, recHist, vadHist, apiVars, rec_start_time, fnVars, pauseHist>>

\* inmp441_read_frame, line 553: -RT_ERROR on a stopped device; the worker
\* then continues its loop (line 1458-1461)
W_ReadEntry ==
    /\ a_pc = "read"
    /\ a_pc' = IF is_running THEN "sem" ELSE "loop"
    /\ UNCHANGED <<a_running, a_frame, a_fc, audio_state, rec_size,
                   vad_hangover_count, speech_detected_cnt>>
    /\ UNCHANGED <<drvVars, drvHist, feedVars, sttVars, sttHist>>
    /\ UNCHANGED <<vadVars, recHist, vadHist, apiVars, rec_start_time, fnVars, pauseHist>>

\* rt_sem_take(dev->buffer_sem, RT_WAITING_FOREVER), line 556
W_SemTake ==
    /\ a_pc = "sem"
    /\ sem > 0
    /\ sem' = sem - 1
    /\ a_pc' = "copy"
    /\ UNCHANGED <<is_running, dma_armed, write_idx, read_idx, frame_count,
                   frames, total_frames, overrun_count, dma_errors>>
    /\ UNCHANGED <<a_running, a_frame, a_fc, audio_state, rec_size,
                   vad_hangover_count, speech_detected_cnt>>
    /\ UNCHANGED <<drvHist, feedVars, sttVars, sttHist>>
    /\ UNCHANGED <<vadVars, recHist, vadHist, apiVars, rec_start_time, fnVars, pauseHist>>

\* lines 559-577 up to the load of dev->frame_count: under dev->lock the slot
\* at read_idx is copied out and read_idx advances.  malloc_ok: rt_malloc of
\* the caller's buffer (line 562); on failure the call returns -RT_ENOMEM.
W_Copy(malloc_ok) ==
    /\ a_pc = "copy"
    /\ IF malloc_ok
       THEN /\ a_frame' = frames[read_idx]
            /\ read_idx' = (read_idx + 1) % AUDIO_BUFFER_COUNT
            /\ a_fc' = frame_count
            /\ h_nread' = h_nread + 1
            /\ a_pc' = "dec"
       ELSE /\ a_pc' = "loop"
            /\ UNCHANGED <<a_frame, read_idx, a_fc, h_nread>>
    /\ UNCHANGED <<is_running, dma_armed, write_idx, frame_count, sem, frames,
                   total_frames, overrun_count, dma_errors>>
    /\ UNCHANGED <<a_running, audio_state, rec_size, vad_hangover_count,
                   speech_detected_cnt>>
    /\ UNCHANGED <<h_run, h_base, h_idle_irq, feedVars, sttVars, sttHist>>
    /\ UNCHANGED <<vadVars, recHist, vadHist, apiVars, rec_start_time, fnVars, pauseHist>>

\* line 577, the store half of dev->frame_count--, then the lock is released
\* and the call returns RT_EOK
W_Dec ==
    /\ a_pc = "dec"
    /\ frame_count' = U32Dec(a_fc)
    /\ a_pc' = "fsm"
    /\ UNCHANGED <<is_running, dma_armed, write_idx, read_idx, sem, frames,
                   total_frames, overrun_count, dma_errors>>
    \* the loaded value is a temporary, dead once it is stored
    /\ a_fc' = 0
    /\ UNCHANGED <<a_running, a_frame, audio_state, rec_size,
                   vad_hangover_count, speech_detected_cnt>>
    /\ UNCHANGED <<drvHist, feedVars, sttVars, sttHist>>
    /\ UNCHANGED <<vadVars, recHist, vadHist, apiVars, rec_start_time, fnVars, pauseHist>>

\* line 1337: recording.capacity
RecCapacity == (INMP441_SAMPLE_RATE * 3) \div 2

\* lines 1496, 1513, 1535: does the frame fit
Fits_Always(size, fsize) == TRUE
Fits(size, fsize) == size + fsize <= RecCapacity

\* line 1569: ctx->callback(&ctx->recording).  The callback
\* registered for the STT pipeline calls stt_manager_feed_recording with the
\* recording's data pointer and size (stt_manager.c, header comment).
speech_callback ==
    /\ f_pc' = "entry"
    /\ f_ptr' = RecBuf
    /\ f_samples' = rec_size

\* lines 1463-1583: statistics, VAD and one pass through the state machine
\* under ctx->lock.  speech: the result of vad_detect_speech_enhanced on the
\* frame; duration_ms: the duration computed from rt_tick_get() at line 1549.
\* A delivered recording enters the callback (stt_manager_feed_recording
\* with the recording's data pointer and size) while ctx->lock is held.
\* line 1552: the minimum-duration test
TooShort_Never(duration_ms) == FALSE
TooShort(duration_ms) == duration_ms < VAD_MIN_RECORD_MS

\* line 1530: the hangover test on a frame without speech
InHangover_OffByOne(hc) == hc > 1
InHangover(hc) == hc > 0

\* line 1491: the hangover counter when a recording starts
StartHangover_Unarmed(hc) == hc
StartHangover(hc) == VAD_HANGOVER_FRAMES

\* history of the state machine: silent frames in a row within the recording,
\* speech frames of an unbroken run, whether speech resumed after silence
RecHistory(speech) ==
    /\ h_speech' = speech
    /\ h_silent' = IF audio_state = "RECORDING" /\ ~speech
                   THEN h_silent + 1 ELSE 0
    /\ h_nspeech' = IF audio_state = "IDLE" THEN (IF speech THEN 1 ELSE 0)
                    ELSE IF ~speech THEN h_nspeech
                    ELSE IF h_silent = 0 /\ ~h_broken THEN h_nspeech + 1
                    ELSE 0
    /\ h_broken' = IF audio_state = "IDLE" THEN FALSE
                   ELSE h_broken \/ (speech /\ h_silent > 0)

\* rt_tick_get(): the time, counted in DMA completions (frame periods of
\* the capture)
rt_tick_get == total_frames + overrun_count

W_Fsm(speech, duration_ms) ==
    /\ a_pc = "fsm"
    /\ RecHistory(speech)
    /\ LET fsize == a_frame.size
           goes_on == h_cause' = "none" /\ h_dur' = -1
           finish(hc, cause) ==
               /\ vad_hangover_count' = hc
               /\ h_cause' = cause
               /\ h_dur' = duration_ms
               /\ UNCHANGED rec_start_time
               /\ IF TooShort(duration_ms)
                  THEN /\ audio_state' = "IDLE"
                       /\ rec_size' = 0
                       /\ a_pc' = "loop"
                       /\ UNCHANGED <<speech_detected_cnt, feedVars>>
                  ELSE /\ speech_detected_cnt' = speech_detected_cnt + 1
                       /\ speech_callback
                       /\ a_pc' = "callback"
                       /\ UNCHANGED <<audio_state, rec_size>>
       IN
       CASE audio_state = "IDLE" /\ speech ->
               /\ audio_state' = "RECORDING"
               /\ rec_start_time' = rt_tick_get
               /\ vad_hangover_count' = StartHangover(vad_hangover_count)
               /\ rec_size' = IF Fits(0, fsize) THEN fsize ELSE 0
               /\ a_pc' = "loop"
               /\ goes_on
               /\ UNCHANGED <<speech_detected_cnt, feedVars>>
         [] audio_state = "IDLE" /\ ~speech ->
               /\ a_pc' = "loop"
               /\ goes_on
               /\ UNCHANGED <<audio_state, rec_size, vad_hangover_count,
                              speech_detected_cnt, feedVars,
                              rec_start_time>>
         [] audio_state = "RECORDING" /\ speech /\ Fits(rec_size, fsize) ->
               /\ vad_hangover_count' = VAD_HANGOVER_FRAMES
               /\ rec_size' = rec_size + fsize
               /\ a_pc' = "loop"
               /\ goes_on
               /\ UNCHANGED <<audio_state, speech_detected_cnt, feedVars,
                              rec_start_time>>
         [] audio_state = "RECORDING" /\ speech /\ ~Fits(rec_size, fsize) ->
               finish(VAD_HANGOVER_FRAMES, "full")
         [] audio_state = "RECORDING" /\ ~speech
                /\ InHangover(vad_hangover_count) ->
               /\ vad_hangover_count' = vad_hangover_count - 1
               /\ rec_size' = IF Fits(rec_size, fsize)
                              THEN rec_size + fsize ELSE rec_size
               /\ a_pc' = "loop"
               /\ goes_on
               /\ UNCHANGED <<audio_state, speech_detected_cnt, feedVars,
                              rec_start_time>>
         [] audio_state = "RECORDING" /\ ~speech
                /\ ~InHangover(vad_hangover_count) ->
               finish(vad_hangover_count, "hangover")
    /\ UNCHANGED <<a_running, a_frame, a_fc>>
    /\ UNCHANGED <<drvVars, drvHist, sttVars, sttHist, apiVars, fnVars, pauseHist>>

\* line 1574: the fill length once the recording has been delivered
SizeAfterDelivery_Kept(size) == size
SizeAfterDelivery(size) == 0

\* lines 1572-1583: back from the callback
W_AfterCallback ==
    /\ a_pc = "callback"
    /\ f_pc = "ret"
    /\ f_pc' = "none"
    /\ audio_state' = "IDLE"
    /\ rec_size' = SizeAfterDelivery(rec_size)
    /\ a_pc' = "loop"
    /\ UNCHANGED <<f_ptr, f_samples>>
    /\ UNCHANGED <<a_running, a_frame, a_fc, vad_hangover_count,
                   speech_detected_cnt>>
    /\ UNCHANGED <<drvVars, drvHist, sttVars, sttHist>>
    /\ UNCHANGED <<vadVars, recHist, vadHist, apiVars, rec_start_time, fnVars, pauseHist>>

\* audio_capture_start, lines 304-335: inmp441_start, then audio_process_start
\* (ctx->running = RT_TRUE and the worker thread starts) if that succeeded
audio_capture_start(hal_ok) ==
    /\ g_audio_system_initialized
    /\ ~a_running
    /\ a_pc = "off"
    /\ inmp441_start(hal_ok)
    /\ IF is_running \/ hal_ok
       THEN a_running' = TRUE /\ a_pc' = "loop"
       ELSE UNCHANGED <<a_running, a_pc>>
    /\ UNCHANGED <<a_frame, a_fc, audio_state, rec_size, vad_hangover_count,
                   speech_detected_cnt>>
    /\ UNCHANGED <<feedVars, sttVars, sttHist>>
    /\ UNCHANGED <<vadVars, recHist, vadHist, apiVars, rec_start_time, fnVars, pauseHist>>

\* audio_process_stop, lines 1435-1443: ctx->running = RT_FALSE, nothing else
audio_process_stop ==
    /\ a_running
    /\ a_running' = FALSE
    /\ UNCHANGED <<a_pc, a_frame, a_fc, audio_state, rec_size,
                   vad_hangover_count, speech_detected_cnt>>
    /\ UNCHANGED <<drvVars, drvHist, feedVars, sttVars, sttHist>>
    /\ UNCHANGED <<vadVars, recHist, vadHist, apiVars, rec_start_time, fnVars, pauseHist>>

(* ===================================================================== *)
(* audio_process.h: the adaptive detector                                *)
(* ===================================================================== *)

\* old * (1 - alpha) + new * alpha, alpha in percent.  The code computes in
\* float; the model keeps energies to a resolution of one unit.
Mix(old, new, alpha) == (old * (100 - alpha) + new * alpha) \div 100

\* line 1675: the end of the calibration
CalibrationDone_Early(cnt) == cnt >= 1
CalibrationDone(cnt) == cnt >= VAD_CALIBRATION_FRAMES

\* lines 1678 and 1700: the threshold recomputed from the noise floor
Threshold_Unscaled(floor) == floor
Threshold(floor) == floor * VAD_THRESHOLD_RATIO

\* line 1694: energy < vad->energy_threshold * 0.5f
BelowHalf_Always(energy, threshold) == TRUE
BelowHalf(energy, threshold) == energy * 2 < threshold

\* vad_update_noise_floor, lines 1655-1703 (VAD_ADAPTIVE_ENABLED)
vad_update_noise_floor(energy) ==
    IF ~v_calibrated
    THEN /\ v_cal_cnt' = v_cal_cnt + 1
         /\ v_noise_floor' = IF v_cal_cnt + 1 = 1 THEN energy
                             ELSE Mix(v_noise_floor, energy, 10)
         /\ IF CalibrationDone(v_cal_cnt + 1)
            THEN /\ v_calibrated' = TRUE
                 /\ v_threshold' = Threshold(v_noise_floor')
            ELSE UNCHANGED <<v_calibrated, v_threshold>>
    ELSE /\ IF BelowHalf(energy, v_threshold)
            THEN /\ v_noise_floor' =
                        Mix(v_noise_floor, energy, VAD_NOISE_FLOOR_ALPHA)
                 /\ v_threshold' = Threshold(v_noise_floor')
            ELSE UNCHANGED <<v_noise_floor, v_threshold>>
         /\ UNCHANGED <<v_cal_cnt, v_calibrated>>

\* line 1771: enough frames in a row to report speech
SpeechConfirmed_Late(cnt) == cnt > VAD_MIN_SPEECH_FRAMES
SpeechConfirmed(cnt) == cnt >= VAD_MIN_SPEECH_FRAMES

\* vad_detect_speech_enhanced, lines 1709-1786.  energy: the result of
\* audio_calculate_energy on the frame; zcr_ok: whether vad_calculate_zcr is
\* inside [VAD_ZCR_MIN, VAD_ZCR_MAX]; ret: the value returned.
vad_detect_speech_enhanced(energy, zcr_ok, ret) ==
    LET smoothed == Mix(v_smoothed, energy, VAD_ENERGY_SMOOTH_ALPHA)
        is_speech == smoothed > v_threshold /\ zcr_ok
    IN  /\ v_smoothed' = smoothed
        /\ IF ~v_calibrated
           THEN /\ vad_update_noise_floor(energy)
                /\ UNCHANGED <<v_speech_cnt, v_silence_cnt>>
                /\ ret = FALSE
           ELSE IF is_speech
           THEN /\ v_speech_cnt' = v_speech_cnt + 1
                /\ v_silence_cnt' = 0
                /\ UNCHANGED <<v_noise_floor, v_threshold, v_cal_cnt,
                               v_calibrated>>
                /\ ret = SpeechConfirmed(v_speech_cnt + 1)
           ELSE /\ v_silence_cnt' = v_silence_cnt + 1
                /\ v_speech_cnt' = 0
                /\ IF v_silence_cnt + 1 > 10
                   THEN vad_update_noise_floor(energy)
                   ELSE UNCHANGED <<v_noise_floor, v_threshold, v_cal_cnt,
                                    v_calibrated>>
                /\ ret = FALSE

\* history: frames in a row, after the calibration, whose zero-crossing count
\* is inside the window and whose energy is above the threshold
LoudHistory(energy, zcr_ok) ==
    h_loud' = IF v_calibrated /\ zcr_ok /\ energy > v_threshold
              THEN h_loud + 1 ELSE 0

\* history: frames in a row, after the calibration, whose zero-crossing count
\* is inside the window and whose smoothed energy is above the threshold the
\* detector holds when the frame comes
QualHistory(energy, zcr_ok) ==
    h_qual' = IF /\ v_calibrated
                 /\ zcr_ok
                 /\ Mix(v_smoothed, energy, VAD_ENERGY_SMOOTH_ALPHA) > v_threshold
              THEN h_qual + 1 ELSE 0

\* history: the energy of the frame the detector saw last
EnergyHistory(energy) == h_energy' = energy

\* lines 1463-1583 with the detector: the decision of
\* vad_detect_speech_enhanced (line 1478) drives the state machine
W_Process(energy, zcr_ok, duration_ms) ==
    \E speech \in BOOLEAN :
        /\ vad_detect_speech_enhanced(energy, zcr_ok, speech)
        /\ LoudHistory(energy, zcr_ok)
        /\ QualHistory(energy, zcr_ok)
        /\ EnergyHistory(energy)
        /\ W_Fsm(speech, duration_ms)

(* --------- the frame functions on any frame, degenerate ones too -------- *)

\* the zero-crossing window (line 1744), in crossings per frame
VAD_ZCR_MIN == 1
VAD_ZCR_MAX == 2

\* frames handed to the functions: the null frame pointer, or a frame with its
\* buffer (RT_NULL or the samples) and its size field
NullFrame == [null |-> TRUE, buffer_null |-> TRUE, buffer |-> <<>>, size |-> 0]
FrameOf(samples) ==
    [null |-> FALSE, buffer_null |-> FALSE, buffer |-> samples,
     size |-> Len(samples)]
NullBufferFrame(size) ==
    [null |-> FALSE, buffer_null |-> TRUE, buffer |-> <<>>, size |-> size]

\* a value returned, or a fault raised
Returned(v) == [fault |-> FALSE, value |-> v]
Fault == [fault |-> TRUE, value |-> 0]

\* line 1800: frame->buffer[i] >> 8 (arithmetic shift of an int32_t)
Scaled(sample) ==
    IF sample >= 0 THEN sample \div 256 ELSE -((-sample + 255) \div 256)

RECURSIVE SumSquares(_)
SumSquares(samples) ==
    IF samples = <<>> THEN 0
    ELSE Scaled(Head(samples)) * Scaled(Head(samples))
            + SumSquares(Tail(samples))

\* line 1804, sum / frame->size with frame->size == 0: a division by zero,
\* undefined in C.  The 64-bit division is a library call on this target
\* (__aeabi_uldivmod); with the dividend 0, as here, the run-time library
\* either raises a fault or returns 0.
DivByZero == {Fault, Returned(0)}

\* lines 1794-1795: the guard of audio_calculate_energy
EnergyGuard(frame) == frame.null \/ frame.buffer_null

\* audio_calculate_energy, lines 1792-1805: the outcomes of a call
audio_calculate_energy(frame) ==
    IF EnergyGuard(frame) THEN {Returned(0)}
    ELSE IF frame.size = 0 THEN DivByZero
    ELSE {Returned(SumSquares(frame.buffer) \div frame.size)}

\* vad_calculate_zcr, lines 1630-1649
vad_calculate_zcr(frame) ==
    IF frame.null \/ frame.buffer_null \/ frame.size < 2 THEN 0
    ELSE Cardinality({i \in 2..frame.size :
                        (frame.buffer[i] >= 0) # (frame.buffer[i - 1] >= 0)})

\* line 1744
ZcrInWindow(zcr) == zcr >= VAD_ZCR_MIN /\ zcr <= VAD_ZCR_MAX

\* no direct call made yet
NoEval == [n |-> 0, frame |-> NullFrame, energy |-> 0, zcr |-> 0,
           speech |-> FALSE, fault |-> FALSE]

\* audio_calculate_energy(frame), vad_calculate_zcr(frame) and
\* vad_detect_speech_enhanced(frame) applied to a frame in the detector's
\* current context, between two frames of the worker.  A fault ends the call.
D_Eval(frame) ==
    /\ a_pc = "loop"
    /\ \E e \in audio_calculate_energy(frame) :
          IF e.fault
          THEN /\ d_out' = [n |-> d_out.n + 1, frame |-> frame, energy |-> 0,
                            zcr |-> 0, speech |-> FALSE, fault |-> TRUE]
               /\ UNCHANGED vadVars
          ELSE \E ret \in BOOLEAN :
                  /\ vad_detect_speech_enhanced(
                         e.value, ZcrInWindow(vad_calculate_zcr(frame)), ret)
                  /\ d_out' = [n |-> d_out.n + 1, frame |-> frame,
                               energy |-> e.value,
                               zcr |-> vad_calculate_zcr(frame),
                               speech |-> ret, fault |-> FALSE]
    /\ UNCHANGED <<drvVars, drvHist, workerVars, feedVars, sttVars, sttHist>>
    /\ UNCHANGED <<recHist, vadHist, apiVars, rec_start_time, pauseHist>>

\* One frame period without preemption: a DMA completion enqueues a frame
\* while the worker waits in rt_sem_take on the empty queue, and
\* inmp441_read_frame returns that frame (process_dma_data, then lines
\* 556-580 of inmp441_read_frame, as one step).
R_NextFrame ==
    /\ a_pc = "loop"
    /\ a_running
    /\ is_running
    /\ sem = 0
    /\ frame_count = 0
    /\ write_idx = read_idx
    /\ LET f == [id |-> total_frames + 1, run |-> h_run,
                 size |-> Min(SAI_DMA_BUFFER_SIZE \div 2, AUDIO_FRAME_SIZE)]
       IN  /\ frames' = [frames EXCEPT ![write_idx] = f]
           /\ a_frame' = f
    /\ write_idx' = (write_idx + 1) % AUDIO_BUFFER_COUNT
    /\ read_idx' = (read_idx + 1) % AUDIO_BUFFER_COUNT
    /\ total_frames' = total_frames + 1
    /\ a_fc' = 0
    /\ h_nread' = h_nread + 1
    /\ a_pc' = "fsm"
    /\ UNCHANGED <<is_running, dma_armed, frame_count, sem, overrun_count,
                   dma_errors>>
    /\ UNCHANGED <<h_run, h_base, h_idle_irq>>
    /\ UNCHANGED <<a_running, audio_state, rec_size, vad_hangover_count,
                   speech_detected_cnt>>
    /\ UNCHANGED <<feedVars, sttVars, sttHist, vadVars, recHist, vadHist,
                   apiVars, rec_start_time, fnVars, pauseHist>>

(* ===================================================================== *)
(* stt_manager.c: stt_manager_feed_recording                             *)
(* ===================================================================== *)

\* line 275: if (!ctx->running) return
F_Entry ==
    /\ f_pc = "entry"
    /\ f_pc' = IF stt_running THEN "lock" ELSE "ret"
    /\ UNCHANGED <<f_ptr, f_samples>>
    /\ UNCHANGED <<drvVars, drvHist, workerVars, sttVars, sttHist>>
    /\ UNCHANGED <<vadVars, recHist, vadHist, apiVars, rec_start_time, fnVars, pauseHist>>

\* line 278: rt_mutex_take(ctx->lock): the owner after the call
FeedTake_NoLock(lock) == lock
FeedTake(lock) == "feed"

\* lines 278-281: take the lock, store the pointer
F_Lock ==
    /\ f_pc = "lock"
    /\ stt_lock = "none"
    /\ stt_lock' = FeedTake(stt_lock)
    /\ pcm_ptr' = f_ptr
    /\ f_pc' = "len"
    /\ UNCHANGED <<f_ptr, f_samples>>
    /\ UNCHANGED <<stt_running, stt_state, s_pc, mbox, pcm_samples, data_ready,
                   s_ptr, s_samples, s_ret, last_text>>
    /\ UNCHANGED <<drvVars, drvHist, workerVars, sttHist>>
    /\ UNCHANGED <<vadVars, recHist, vadHist, apiVars, rec_start_time, fnVars, pauseHist>>

\* line 282: store the sample count
F_Len ==
    /\ f_pc = "len"
    /\ pcm_samples' = f_samples
    /\ f_pc' = "rdy"
    /\ UNCHANGED <<f_ptr, f_samples>>
    /\ UNCHANGED <<stt_running, stt_state, s_pc, mbox, pcm_ptr, data_ready,
                   stt_lock, s_ptr, s_samples, s_ret, last_text>>
    /\ UNCHANGED <<drvVars, drvHist, workerVars, sttHist>>
    /\ UNCHANGED <<vadVars, recHist, vadHist, apiVars, rec_start_time, fnVars, pauseHist>>

\* lines 283-285: data_ready = RT_TRUE, release the lock
F_Ready ==
    /\ f_pc = "rdy"
    /\ data_ready' = TRUE
    /\ stt_lock' = IF stt_lock = "feed" THEN "none" ELSE stt_lock
    /\ f_pc' = "chk"
    /\ h_fed' = [ptr |-> f_ptr, samples |-> f_samples]
    /\ h_pending' = h_pending + 1
    /\ UNCHANGED <<f_ptr, f_samples, h_nfeeds, h_taken>>
    /\ UNCHANGED <<stt_running, stt_state, s_pc, mbox, pcm_ptr, pcm_samples,
                   s_ptr, s_samples, s_ret, last_text>>
    /\ UNCHANGED <<drvVars, drvHist, workerVars>>
    /\ UNCHANGED <<vadVars, recHist, vadHist, apiVars, rec_start_time, fnVars, pauseHist>>

\* rt_mb_send: non-blocking, -RT_EFULL when the mailbox holds MBOX_SIZE mails
MbSend(mb, msg) == IF Len(mb) < MBOX_SIZE THEN Append(mb, msg) ELSE mb

\* lines 288-295: notify only an idle STT thread
FeedNotify_Always(st, mb) == MbSend(mb, STT_MSG_NEW_RECORDING)
FeedNotify(st, mb) ==
    IF st = "IDLE" THEN MbSend(mb, STT_MSG_NEW_RECORDING) ELSE mb

F_Check ==
    /\ f_pc = "chk"
    /\ mbox' = FeedNotify(stt_state, mbox)
    /\ f_pc' = "ret"
    /\ UNCHANGED <<f_ptr, f_samples>>
    /\ UNCHANGED <<stt_running, stt_state, s_pc, pcm_ptr, pcm_samples,
                   data_ready, stt_lock, s_ptr, s_samples, s_ret, last_text>>
    /\ UNCHANGED <<drvVars, drvHist, workerVars, sttHist>>
    /\ UNCHANGED <<vadVars, recHist, vadHist, apiVars, rec_start_time, fnVars, pauseHist>>
(* ===================================================================== *)
(* stt_manager.c: stt_manager_start and stt_thread_entry                 *)
(* ===================================================================== *)

\* lines 224-235, and the thread's prologue up to the loop (line 60)
stt_manager_start ==
    /\ ~stt_running
    /\ s_pc = "off"
    /\ stt_running' = TRUE
    /\ stt_state' = "IDLE"
    /\ s_pc' = "recv"
    /\ UNCHANGED <<mbox, pcm_ptr, pcm_samples, data_ready, stt_lock, s_ptr,
                   s_samples, s_ret, last_text>>
    /\ UNCHANGED <<drvVars, drvHist, workerVars, feedVars, sttHist>>
    /\ UNCHANGED <<vadVars, recHist, vadHist, apiVars, rec_start_time, fnVars, pauseHist>>

\* lines 69-73: rt_mb_recv(RT_WAITING_FOREVER); other mails are ignored
S_Recv ==
    /\ s_pc = "recv"
    /\ mbox # <<>>
    /\ mbox' = Tail(mbox)
    /\ s_pc' = IF Head(mbox) = STT_MSG_NEW_RECORDING THEN "set_enc" ELSE "recv"
    /\ UNCHANGED <<stt_running, stt_state, pcm_ptr, pcm_samples, data_ready,
                   stt_lock, s_ptr, s_samples, s_ret, last_text>>
    /\ UNCHANGED <<drvVars, drvHist, workerVars, feedVars, sttHist>>
    /\ UNCHANGED <<vadVars, recHist, vadHist, apiVars, rec_start_time, fnVars, pauseHist>>

\* line 76
S_SetEncoding ==
    /\ s_pc = "set_enc"
    /\ stt_state' = "ENCODING"
    /\ s_pc' = "lock"
    /\ UNCHANGED <<stt_running, mbox, pcm_ptr, pcm_samples, data_ready,
                   stt_lock, s_ptr, s_samples, s_ret, last_text>>
    /\ UNCHANGED <<drvVars, drvHist, workerVars, feedVars, sttHist>>
    /\ UNCHANGED <<vadVars, recHist, vadHist, apiVars, rec_start_time, fnVars, pauseHist>>

\* line 89
SttDurationMs(samples) == (samples * 1000) \div STT_SAMPLE_RATE

\* line 81: nothing to encode
NoData_IgnoreFlag == pcm_ptr = RT_NULL
NoData == ~data_ready \/ pcm_ptr = RT_NULL

\* lines 79-104: under ctx->lock the hand-off is read.  Without data the lock
\* is released at once; a too-short recording clears data_ready and releases;
\* otherwise audio_encode_wav is entered with the pointer and the count, the
\* lock still held.  malloc_ok: rt_malloc inside audio_encode_wav; when it
\* fails the call returns before reading any sample (lines 106-107 follow).
S_Lock(malloc_ok) ==
    /\ s_pc = "lock"
    /\ stt_lock = "none"
    /\ IF NoData
       THEN /\ s_pc' = "to_idle"
            /\ UNCHANGED <<data_ready, stt_lock, s_ptr, s_samples, h_pending,
                           h_taken>>
       ELSE /\ s_samples' = pcm_samples
            /\ s_ptr' = pcm_ptr
            /\ h_pending' = 0
            /\ h_taken' = h_pending
            /\ IF SttDurationMs(pcm_samples) < STT_MIN_RECORD_MS
               THEN /\ data_ready' = FALSE
                    /\ s_pc' = "to_idle"
                    /\ UNCHANGED stt_lock
               ELSE IF malloc_ok
               THEN /\ stt_lock' = "stt"
                    /\ s_pc' = "encode"
                    /\ UNCHANGED data_ready
               ELSE /\ data_ready' = FALSE
                    /\ s_pc' = "enc_fail"
                    /\ UNCHANGED stt_lock
    /\ UNCHANGED <<stt_running, stt_state, mbox, pcm_ptr, pcm_samples, s_ret,
                   last_text>>
    /\ UNCHANGED <<h_fed, h_nfeeds>>
    /\ UNCHANGED <<drvVars, drvHist, workerVars, feedVars>>
    /\ UNCHANGED <<vadVars, recHist, vadHist, apiVars, rec_start_time, fnVars, pauseHist>>

\* lines 84, 97: back to IDLE without encoding (continue)
S_ToIdle ==
    /\ s_pc = "to_idle"
    /\ stt_state' = "IDLE"
    /\ s_pc' = "recv"
    /\ UNCHANGED <<stt_running, mbox, pcm_ptr, pcm_samples, data_ready,
                   stt_lock, s_ptr, s_samples, s_ret, last_text>>
    /\ UNCHANGED <<drvVars, drvHist, workerVars, feedVars, sttHist>>
    /\ UNCHANGED <<vadVars, recHist, vadHist, apiVars, rec_start_time, fnVars, pauseHist>>

\* line 107: rt_mutex_release(ctx->lock) after the encode: the owner then
EncodeRelease_Leak(lock) == lock
EncodeRelease(lock) == "none"

\* lines 104-107: audio_encode_wav has read the samples through the pointer
\* and returns RT_EOK; data_ready is cleared and the lock released
S_EncodeDone ==
    /\ s_pc = "encode"
    /\ data_ready' = FALSE
    /\ stt_lock' = EncodeRelease(stt_lock)
    /\ s_pc' = "set_upl"
    /\ UNCHANGED <<stt_running, stt_state, mbox, pcm_ptr, pcm_samples, s_ptr,
                   s_samples, s_ret, last_text>>
    /\ UNCHANGED <<drvVars, drvHist, workerVars, feedVars, sttHist>>
    /\ UNCHANGED <<vadVars, recHist, vadHist, apiVars, rec_start_time, fnVars, pauseHist>>

\* lines 112-115: after the ERROR display delay the state is set to IDLE
\* before the continue
EncodeFailNext_NoReset == "recv"
EncodeFailNext == "to_idle"

\* lines 109-113: encode failed
S_EncodeFailed ==
    /\ s_pc = "enc_fail"
    /\ stt_state' = "ERROR"
    /\ s_pc' = EncodeFailNext
    /\ UNCHANGED <<stt_running, mbox, pcm_ptr, pcm_samples, data_ready,
                   stt_lock, s_ptr, s_samples, s_ret, last_text>>
    /\ UNCHANGED <<drvVars, drvHist, workerVars, feedVars, sttHist>>
    /\ UNCHANGED <<vadVars, recHist, vadHist, apiVars, rec_start_time, fnVars, pauseHist>>

\* line 121
S_SetUploading ==
    /\ s_pc = "set_upl"
    /\ stt_state' = "UPLOADING"
    /\ s_pc' = "pause"
    /\ UNCHANGED <<stt_running, mbox, pcm_ptr, pcm_samples, data_ready,
                   stt_lock, s_ptr, s_samples, s_ret, last_text>>
    /\ UNCHANGED <<drvVars, drvHist, workerVars, feedVars, sttHist>>
    /\ UNCHANGED <<vadVars, recHist, vadHist, apiVars, rec_start_time, fnVars, pauseHist>>

\* line 126: the capture is paused before the upload
PauseCapture_Skipped == UNCHANGED <<drvVars, drvHist>>
PauseCapture == inmp441_stop

\* lines 126-127: inmp441_stop(), then stt_baidu_recognize is entered
S_Pause ==
    /\ s_pc = "pause"
    /\ PauseCapture
    /\ h_was_running' = is_running
    /\ s_pc' = "recognize"
    /\ UNCHANGED <<stt_running, stt_state, mbox, pcm_ptr, pcm_samples,
                   data_ready, stt_lock, s_ptr, s_samples, s_ret, last_text>>
    /\ UNCHANGED <<workerVars, feedVars, sttHist>>
    /\ UNCHANGED <<vadVars, recHist, vadHist, apiVars, rec_start_time, fnVars>>

\* line 130: stt_baidu_recognize returns; ok: whether it returned RT_EOK
S_Recognize(ok) ==
    /\ s_pc = "recognize"
    /\ s_ret' = ok
    /\ s_pc' = "resume"
    /\ UNCHANGED <<stt_running, stt_state, mbox, pcm_ptr, pcm_samples,
                   data_ready, stt_lock, s_ptr, s_samples, last_text>>
    /\ UNCHANGED <<drvVars, drvHist, workerVars, feedVars, sttHist>>
    /\ UNCHANGED <<vadVars, recHist, vadHist, apiVars, rec_start_time, fnVars, pauseHist>>

\* line 134: inmp441_start()
S_Resume(hal_ok) ==
    /\ s_pc = "resume"
    /\ inmp441_start(hal_ok)
    /\ h_was_running' = FALSE
    /\ s_pc' = "result"
    /\ UNCHANGED <<stt_running, stt_state, mbox, pcm_ptr, pcm_samples,
                   data_ready, stt_lock, s_ptr, s_samples, s_ret, last_text>>
    /\ UNCHANGED <<workerVars, feedVars, sttHist>>
    /\ UNCHANGED <<vadVars, recHist, vadHist, apiVars, rec_start_time, fnVars>>

\* lines 142 and 160: the state written after stt_baidu_recognize returned
ResultState_Idle(ok) == IF ok THEN "DISPLAYING" ELSE "IDLE"
ResultState(ok) == IF ok THEN "DISPLAYING" ELSE "ERROR"

\* lines 139-168: DISPLAYING with the text, or ERROR with "ERR:<err_no>"
S_Result ==
    /\ s_pc = "result"
    /\ IF s_ret
       THEN stt_state' = ResultState(TRUE) /\ last_text' = "text"
       ELSE stt_state' = ResultState(FALSE) /\ last_text' = "ERR"
    /\ s_pc' = "show"
    /\ UNCHANGED <<stt_running, mbox, pcm_ptr, pcm_samples, data_ready,
                   stt_lock, s_ptr, s_samples, s_ret>>
    /\ UNCHANGED <<drvVars, drvHist, workerVars, feedVars, sttHist>>
    /\ UNCHANGED <<vadVars, recHist, vadHist, apiVars, rec_start_time, fnVars, pauseHist>>

\* line 170
S_ShowDone ==
    /\ s_pc = "show"
    /\ stt_state' = "IDLE"
    /\ s_pc' = "recheck"
    /\ UNCHANGED <<stt_running, mbox, pcm_ptr, pcm_samples, data_ready,
                   stt_lock, s_ptr, s_samples, s_ret, last_text>>
    /\ UNCHANGED <<drvVars, drvHist, workerVars, feedVars, sttHist>>
    /\ UNCHANGED <<vadVars, recHist, vadHist, apiVars, rec_start_time, fnVars, pauseHist>>

\* lines 173-177: a recording fed meanwhile is notified by the thread itself
S_Recheck ==
    /\ s_pc = "recheck"
    /\ mbox' = IF data_ready THEN MbSend(mbox, STT_MSG_NEW_RECORDING) ELSE mbox
    /\ s_pc' = "recv"
    /\ UNCHANGED <<stt_running, stt_state, pcm_ptr, pcm_samples, data_ready,
                   stt_lock, s_ptr, s_samples, s_ret, last_text>>
    /\ UNCHANGED <<drvVars, drvHist, workerVars, feedVars, sttHist>>
    /\ UNCHANGED <<vadVars, recHist, vadHist, apiVars, rec_start_time, fnVars, pauseHist>>
(* ===================================================================== *)
(* callers from outside the three pipeline contexts                      *)
(* ===================================================================== *)

RT_EOK == "RT_EOK"
RT_ERROR == "-RT_ERROR"
RT_ENOMEM == "-RT_ENOMEM"
RT_ETIMEOUT == "-RT_ETIMEOUT"

\* the device as a caller finds it
DeviceIs ==
    IF ~is_initialized THEN "uninitialized"
    ELSE IF is_running THEN "running" ELSE "stopped"

Called(name, arg, ret) ==
    api' = [call |-> name, on |-> DeviceIs, arg |-> arg, ret |-> ret]

\* inmp441_start, lines 505-530: the value returned
inmp441_start_ret(hal_ok) ==
    IF ~is_initialized THEN RT_ERROR
    ELSE IF is_running THEN RT_EOK
    ELSE IF hal_ok THEN RT_EOK ELSE RT_ERROR

\* inmp441_stop, lines 537-546: the value returned
inmp441_stop_ret == RT_EOK

\* inmp441_read_frame, lines 553-580: the value returned to a caller that
\* gives a timeout, when no release of the semaphore comes within it.
\* frame_ok: the frame argument is not null; malloc_ok: rt_malloc (line 562)
inmp441_read_frame_ret(frame_ok, malloc_ok) ==
    IF ~is_running \/ ~frame_ok THEN RT_ERROR
    ELSE IF sem = 0 THEN RT_ETIMEOUT
    ELSE IF ~malloc_ok THEN RT_ENOMEM
    ELSE RT_EOK

\* inmp441_read_frame(frame, timeout), lines 549-581, run without preemption
inmp441_read_frame(frame_ok, malloc_ok) ==
    LET ret == inmp441_read_frame_ret(frame_ok, malloc_ok)
    IN  /\ sem' = IF ret \in {RT_EOK, RT_ENOMEM} THEN sem - 1 ELSE sem
        /\ IF ret = RT_EOK
           THEN /\ read_idx' = (read_idx + 1) % AUDIO_BUFFER_COUNT
                /\ frame_count' = U32Dec(frame_count)
                /\ h_nread' = h_nread + 1
           ELSE UNCHANGED <<read_idx, frame_count, h_nread>>
        /\ UNCHANGED <<is_running, dma_armed, write_idx, frames, total_frames,
                       overrun_count, dma_errors, h_run, h_base, h_idle_irq>>

\* the steps of inmp441_init (lines 421-454) and of audio_process_init (lines
\* 1328-1369) that can fail
DrvAllocSteps == {"sai_sem", "sai_lock", "frame_buffer"}
DrvPeriphSteps == {"sai_peripheral_init", "sai_dma_init"}
ProcInitSteps == {"audio_lock", "recording_buffer", "audio_proc_thread"}
InitFailures == {"none"} \cup DrvAllocSteps \cup DrvPeriphSteps \cup ProcInitSteps

\* inmp441_init, lines 413-467: the value returned; fail: the step that fails
inmp441_init_ret(fail) ==
    IF is_initialized THEN RT_EOK
    ELSE IF fail \in DrvAllocSteps THEN RT_ENOMEM
    ELSE IF fail \in DrvPeriphSteps THEN RT_ERROR
    ELSE RT_EOK

\* audio_process_init, lines 1313-1373: the value returned
audio_process_init_ret(fail) ==
    IF fail \in ProcInitSteps THEN RT_ENOMEM ELSE RT_EOK

\* audio_capture_system_init, lines 256-270: the value returned
audio_capture_system_init_ret(fail) ==
    IF inmp441_init_ret(fail) # RT_EOK THEN inmp441_init_ret(fail)
    ELSE audio_process_init_ret(fail)

\* lines 264-270: a failed audio_process_init is followed by inmp441_deinit,
\* which clears is_initialized (line 496)
AfterProcInitFailure_NoDeinit(initialized) == initialized
AfterProcInitFailure(initialized) == FALSE

\* audio_capture_system_init as its callers make it (lines 590-593, 952-955,
\* 988-991, 1151-1153: only when the system is not initialized).  inmp441_init
\* zeroes the device and creates the semaphore with no token before its first
\* step that can fail; audio_process_init zeroes the worker's context and
\* calls vad_init; the threads are created, not started.
audio_capture_system_init(fail) ==
    /\ ~g_audio_system_initialized
    /\ a_pc = "off"
    /\ Called("audio_capture_system_init", fail,
              audio_capture_system_init_ret(fail))
    /\ LET drv_ok == inmp441_init_ret(fail) = RT_EOK
           all_ok == audio_capture_system_init_ret(fail) = RT_EOK
       IN  /\ is_initialized' = IF ~drv_ok THEN FALSE
                                ELSE IF all_ok THEN TRUE
                                ELSE AfterProcInitFailure(TRUE)
           /\ g_audio_system_initialized' = all_ok
    /\ IF is_initialized
       THEN UNCHANGED <<drvVars, drvHist>>
       ELSE /\ is_running' = FALSE /\ dma_armed' = FALSE
            /\ write_idx' = 0 /\ read_idx' = 0 /\ frame_count' = 0
            /\ sem' = 0
            /\ frames' = [i \in 0..(AUDIO_BUFFER_COUNT - 1) |-> NoFrame]
            /\ total_frames' = 0 /\ overrun_count' = 0 /\ dma_errors' = 0
            /\ UNCHANGED drvHist
    /\ UNCHANGED <<workerVars, feedVars, sttVars, sttHist>>
    /\ UNCHANGED <<vadVars, recHist, vadHist, rec_start_time, fnVars, pauseHist>>

\* calls made by another thread (the shell commands, the monitor thread)
ApiStart(hal_ok) ==
    /\ is_running \/ h_run < MaxRuns
    /\ Called("inmp441_start", IF hal_ok THEN "HAL_OK" ELSE "HAL_ERROR",
              inmp441_start_ret(hal_ok))
    /\ inmp441_start(hal_ok)
    /\ UNCHANGED <<is_initialized, g_audio_system_initialized>>
    /\ UNCHANGED <<workerVars, feedVars, sttVars, sttHist>>
    /\ UNCHANGED <<vadVars, recHist, vadHist, rec_start_time, fnVars, pauseHist>>

ApiStop ==
    /\ Called("inmp441_stop", "none", inmp441_stop_ret)
    /\ inmp441_stop
    /\ UNCHANGED <<is_initialized, g_audio_system_initialized>>
    /\ UNCHANGED <<workerVars, feedVars, sttVars, sttHist>>
    /\ UNCHANGED <<vadVars, recHist, vadHist, rec_start_time, fnVars, pauseHist>>

ApiRead(frame_ok, malloc_ok) ==
    /\ Called("inmp441_read_frame", IF frame_ok THEN "frame" ELSE "RT_NULL",
              inmp441_read_frame_ret(frame_ok, malloc_ok))
    /\ inmp441_read_frame(frame_ok, malloc_ok)
    /\ UNCHANGED <<is_initialized, g_audio_system_initialized>>
    /\ UNCHANGED <<workerVars, feedVars, sttVars, sttHist>>
    /\ UNCHANGED <<vadVars, recHist, vadHist, rec_start_time, fnVars, pauseHist>>

\* inmp441_start() / inmp441_stop() called by any other thread
ExtStart(hal_ok) ==
    /\ h_run < MaxRuns
    /\ inmp441_start(hal_ok)
    /\ UNCHANGED <<workerVars, feedVars, sttVars, sttHist>>
    /\ UNCHANGED <<vadVars, recHist, vadHist, apiVars, rec_start_time, fnVars, pauseHist>>

ExtStop ==
    /\ inmp441_stop
    /\ UNCHANGED <<workerVars, feedVars, sttVars, sttHist>>
    /\ UNCHANGED <<vadVars, recHist, vadHist, apiVars, rec_start_time, fnVars, pauseHist>>

\* sample counts of the recordings the abstract feeder hands over: one below
\* STT_MIN_RECORD_MS and two above it
FeedSamples == {AUDIO_FRAME_SIZE * 15, AUDIO_FRAME_SIZE * 16}

\* stt_manager_feed_recording(pcm32, samples, rate) called from the speech
\* callback of a started audio worker, with any recording
FeedCall(ptr, samples) ==
    /\ a_running
    /\ f_pc = "none"
    /\ h_nfeeds < MaxFeeds
    /\ h_nfeeds' = h_nfeeds + 1
    /\ f_pc' = "entry"
    /\ f_ptr' = ptr
    /\ f_samples' = samples
    /\ UNCHANGED <<h_fed, h_pending, h_taken>>
    /\ UNCHANGED <<drvVars, drvHist, workerVars, sttVars>>
    /\ UNCHANGED <<vadVars, recHist, vadHist, apiVars, rec_start_time, fnVars, pauseHist>>

FeedReturn ==
    /\ a_pc # "callback"
    /\ f_pc = "ret"
    /\ f_pc' = "none"
    /\ UNCHANGED <<f_ptr, f_samples>>
    /\ UNCHANGED <<drvVars, drvHist, workerVars, sttVars, sttHist>>
    /\ UNCHANGED <<vadVars, recHist, vadHist, apiVars, rec_start_time, fnVars, pauseHist>>

(* ===================================================================== *)
(* specifications                                                        *)
(* ===================================================================== *)

\* vad_init, lines 1609-1621
vad_init ==
    /\ v_noise_floor = VAD_ENERGY_THRESHOLD_INIT
    /\ v_threshold = VAD_ENERGY_THRESHOLD_INIT
    /\ v_smoothed = 0
    /\ v_speech_cnt = 0
    /\ v_silence_cnt = 0
    /\ v_cal_cnt = 0
    /\ v_calibrated = FALSE

\* no call made yet
NoCall == [call |-> "none", on |-> "none", arg |-> "none", ret |-> "none"]

\* the zeroed contexts (rt_memset in inmp441_init line 419, audio_process_init
\* line 1320, stt_manager_init line 191, and vad_init), with the
\* initialization flags as given
Constructed(initialized) ==
    /\ is_initialized = initialized
    /\ g_audio_system_initialized = initialized
    /\ api = NoCall
    /\ rec_start_time = 0
    /\ d_out = NoEval
    /\ h_was_running = FALSE
    /\ is_running = FALSE /\ dma_armed = FALSE
    /\ write_idx = 0 /\ read_idx = 0 /\ frame_count = 0 /\ sem = 0
    /\ frames = [i \in 0..(AUDIO_BUFFER_COUNT - 1) |-> NoFrame]
    /\ total_frames = 0 /\ overrun_count = 0 /\ dma_errors = 0
    /\ a_running = FALSE /\ a_pc = "off" /\ a_frame = NoFrame /\ a_fc = 0
    /\ audio_state = "IDLE" /\ rec_size = 0 /\ vad_hangover_count = 0
    /\ speech_detected_cnt = 0
    /\ f_pc = "none" /\ f_ptr = RT_NULL /\ f_samples = 0
    /\ stt_running = FALSE /\ stt_state = "IDLE" /\ s_pc = "off"
    /\ mbox = <<>> /\ pcm_ptr = RT_NULL /\ pcm_samples = 0
    /\ data_ready = FALSE /\ stt_lock = "none"
    /\ s_ptr = RT_NULL /\ s_samples = 0 /\ s_ret = FALSE /\ last_text = ""
    /\ h_run = 0 /\ h_base = 0 /\ h_nread = 0 /\ h_idle_irq = FALSE
    /\ h_fed = NoFeed /\ h_pending = 0 /\ h_taken = 0 /\ h_nfeeds = 0
    /\ vad_init
    /\ h_speech = FALSE /\ h_cause = "none" /\ h_dur = -1
    /\ h_silent = 0 /\ h_nspeech = 0 /\ h_broken = FALSE /\ h_loud = 0
    /\ h_qual = 0
    /\ h_energy = 0

\* the state after inmp441_init, audio_process_init and stt_manager_init
Init == Constructed(TRUE)

\* the state at boot, before audio_capture_system_init
Boot == Constructed(FALSE)

DurationInputs == {VAD_MIN_RECORD_MS - 1, VAD_MIN_RECORD_MS}

Interrupts ==
    \/ HAL_SAI_RxHalfCpltCallback
    \/ HAL_SAI_RxCpltCallback
    \/ HAL_SAI_ErrorCallback

Worker ==
    \/ W_Loop
    \/ W_ReadEntry
    \/ W_SemTake
    \/ \E malloc_ok \in BOOLEAN : W_Copy(malloc_ok)
    \/ W_Dec
    \/ \E speech \in BOOLEAN, d \in DurationInputs :
           W_Fsm(speech, d) /\ UNCHANGED <<vadVars, vadHist>>
    \/ W_AfterCallback

Feed ==
    \/ F_Entry
    \/ F_Lock
    \/ F_Len
    \/ F_Ready
    \/ F_Check

SttThread ==
    \/ S_Recv
    \/ S_SetEncoding
    \/ \E malloc_ok \in BOOLEAN : S_Lock(malloc_ok)
    \/ S_ToIdle
    \/ S_EncodeDone
    \/ S_EncodeFailed
    \/ S_SetUploading
    \/ S_Pause
    \/ \E ok \in BOOLEAN : S_Recognize(ok)
    \/ \E hal_ok \in BOOLEAN : S_Resume(hal_ok)
    \/ S_Result
    \/ S_ShowDone
    \/ S_Recheck

\* A bounded number of completions reaches a running producer.
DmaBudget == is_running => total_frames + overrun_count < MaxDma

\* One frame period (AUDIO_FRAME_SIZE samples at INMP441_SAMPLE_RATE, 32 ms)
\* is long against the worker's work on a frame: here a completion arrives
\* when the worker has emptied the queue and waits on the semaphore.  The
\* interleavings of the interrupt with a reader that lags are those of SpecDrv.
Paced ==
    /\ sem = 0
    /\ a_pc = "sem"
    /\ total_frames + overrun_count < MaxPacedFrames

\* the pipeline: DMA interrupt, audio worker, STT thread
Next ==
    \/ (Paced /\ Interrupts)
    \/ \E hal_ok \in BOOLEAN : audio_capture_start(hal_ok)
    \/ Worker
    \/ Feed
    \/ stt_manager_start
    \/ SttThread

Spec == Init /\ [][Next]_vars
\* the driver under every interleaving: the DMA interrupt, the audio worker
\* as reader of a silent input (no frame is classified as speech, so the
\* state machine stays in IDLE), and inmp441_start / inmp441_stop called by
\* other threads
NextDrv ==
    \/ (DmaBudget /\ Interrupts)
    \/ \E hal_ok \in BOOLEAN : audio_capture_start(hal_ok)
    \/ \E hal_ok \in BOOLEAN : ExtStart(hal_ok)
    \/ ExtStop
    \/ W_Loop
    \/ W_ReadEntry
    \/ W_SemTake
    \/ \E malloc_ok \in BOOLEAN : W_Copy(malloc_ok)
    \/ W_Dec
    \/ \E d \in DurationInputs : W_Fsm(FALSE, d) /\ UNCHANGED <<vadVars, vadHist>>

SpecDrv == Init /\ [][NextDrv]_vars

\* the audio worker on a silent input, as scheduled by RT-Thread
WorkerSilent ==
    \/ W_Loop
    \/ W_ReadEntry
    \/ W_SemTake
    \/ \E malloc_ok \in BOOLEAN : W_Copy(malloc_ok)
    \/ W_Dec
    \/ \E d \in DurationInputs : W_Fsm(FALSE, d) /\ UNCHANGED <<vadVars, vadHist>>

\* the driver under every interleaving, with the worker scheduled: the worker
\* thread, once ready, is eventually run (it has the highest priority of the
\* pipeline's threads)
SpecFlow == Init /\ [][NextDrv]_vars /\ WF_vars(WorkerSilent)

\* stopping the pipeline: audio_capture_stop (lines 340-359) calls
\* audio_process_stop and then inmp441_stop, audio_capture_system_deinit
\* (lines 284-299) calls inmp441_stop and then audio_process_stop; the two
\* calls are taken in either order, at any point of the worker's run.  The
\* producer is not restarted.  A ready worker is eventually run.
NextStop ==
    \/ (DmaBudget /\ Interrupts)
    \/ \E hal_ok \in BOOLEAN : audio_capture_start(hal_ok)
    \/ ExtStop
    \/ audio_process_stop
    \/ WorkerSilent

SpecStop == Init /\ [][NextStop]_vars /\ WF_vars(WorkerSilent)

\* DMA completions in the runs of the calling interface
MaxApiDma == 2

\* the calling interface from boot: initialization with any failing step, the
\* driver's calls made by other threads, the DMA interrupt and the worker
NextApi ==
    \/ \E fail \in InitFailures : audio_capture_system_init(fail)
    \/ \E hal_ok \in BOOLEAN : audio_capture_start(hal_ok)
    \/ \E hal_ok \in BOOLEAN : ApiStart(hal_ok)
    \/ ApiStop
    \/ \E frame_ok \in BOOLEAN, malloc_ok \in BOOLEAN :
           ApiRead(frame_ok, malloc_ok)
    \/ ((is_running => total_frames + overrun_count < MaxApiDma) /\ Interrupts)
    \/ WorkerSilent

SpecApi == Boot /\ [][NextApi]_vars

\* the hand-off: the STT thread against calls of stt_manager_feed_recording
\* with any recording, under every interleaving
NextStt ==
    \/ \E hal_ok \in BOOLEAN : audio_capture_start(hal_ok)
    \/ stt_manager_start
    \/ \E ptr \in {RecBuf, OtherBuf}, n \in FeedSamples : FeedCall(ptr, n)
    \/ Feed
    \/ FeedReturn
    \/ SttThread

SpecStt == Init /\ [][NextStt]_vars

\* feed calls in the runs checked for progress
MaxLiveFeeds == 3

\* the hand-off with its scheduling: a ready thread is eventually run.  The
\* calls the STT thread makes (audio_encode_wav, stt_baidu_recognize, the
\* delays) return; a feed call, once entered, runs to its return, so the
\* lock it holds is released.
NextSttLive ==
    \/ \E hal_ok \in BOOLEAN : audio_capture_start(hal_ok)
    \/ stt_manager_start
    \/ \E ptr \in {RecBuf, OtherBuf}, n \in FeedSamples :
           (h_nfeeds < MaxLiveFeeds /\ FeedCall(ptr, n))
    \/ Feed
    \/ FeedReturn
    \/ SttThread

SpecSttLive ==
    /\ Init
    /\ [][NextSttLive]_vars
    /\ WF_vars(SttThread)
    /\ WF_vars(Feed)

\* the hand-off while another thread may stop the capture at any time
\* (audio_capture_stop, lines 340-359 of audio_process.h, calls inmp441_stop)
NextPause ==
    \/ NextSttLive
    \/ ExtStop

SpecPause == Init /\ [][NextPause]_vars

\* the recording state machine on any sequence of detector decisions and
\* measured durations, one frame per frame period; the STT manager is not
\* started, so the callback's feed returns at once
NextRec ==
    \/ \E hal_ok \in BOOLEAN : audio_capture_start(hal_ok)
    \/ (total_frames < MaxRecFrames /\ R_NextFrame)
    \/ \E speech \in BOOLEAN, d \in DurationInputs :
           W_Fsm(speech, d) /\ UNCHANGED <<vadVars, vadHist>>
    \/ F_Entry
    \/ W_AfterCallback

SpecRec == Init /\ [][NextRec]_vars

\* energies of the frames given to the detector
VadEnergies == {10, 40}

\* the detector in front of the state machine, from vad_init through the
\* calibration and MaxVadTail frames more
NextVad ==
    \/ \E hal_ok \in BOOLEAN : audio_capture_start(hal_ok)
    \/ (total_frames < VAD_CALIBRATION_FRAMES + MaxVadTail /\ R_NextFrame)
    \/ \E energy \in VadEnergies, zcr_ok \in BOOLEAN, d \in DurationInputs :
           W_Process(energy, zcr_ok, d)

SpecVad == Init /\ [][NextVad]_vars

\* direct calls of the frame functions in a run
MaxEvals == 2
\* frames the worker processes in those runs, after the calibration
MaxEvalTail == 2

\* the frames of the direct calls: the null pointer, a null buffer, no
\* sample, one sample, and frames of two and three samples
EvalSamples == {-512, 512}
EvalFrames ==
    {NullFrame, NullBufferFrame(AUDIO_FRAME_SIZE), FrameOf(<<>>)}
        \cup {FrameOf(<<a>>) : a \in EvalSamples}
        \cup {FrameOf(<<a, b>>) : a \in EvalSamples, b \in EvalSamples}
        \cup {FrameOf(<<a, b, a>>) : a \in EvalSamples, b \in EvalSamples}

\* energies of the worker's frames in those runs: the room's noise, and speech
RoomEnergy == 40
EvalEnergies == {RoomEnergy, 400}

\* the frame functions called on any frame while the worker runs the
\* detector: through a calibration on the room's noise, and on frames with
\* or without speech after it
NextFrame ==
    \/ \E hal_ok \in BOOLEAN : audio_capture_start(hal_ok)
    \/ (total_frames < VAD_CALIBRATION_FRAMES + MaxEvalTail /\ R_NextFrame)
    \/ \E energy \in EvalEnergies, zcr_ok \in BOOLEAN, d \in DurationInputs :
           /\ v_calibrated \/ energy = RoomEnergy
           /\ W_Process(energy, zcr_ok, d)
    \/ \E frame \in EvalFrames : (d_out.n < MaxEvals /\ D_Eval(frame))

SpecFrame == Init /\ [][NextFrame]_vars
(* ===================================================================== *)
(* claims                                                                *)
(* ===================================================================== *)

DmaCompletion == HAL_SAI_RxHalfCpltCallback \/ HAL_SAI_RxCpltCallback

\* C1: with the queue holding AUDIO_BUFFER_COUNT frames, every DMA completion
\* of a running producer adds exactly 1 to overrun_count and leaves write_idx,
\* frame_count, the slots, total_frames and the semaphore count as they were
\* (the interrupt handler is one step: it never waits).
C1_OverrunOnFull ==
    [][(DmaCompletion /\ is_running /\ frame_count = AUDIO_BUFFER_COUNT)
         => /\ overrun_count' = overrun_count + 1
            /\ UNCHANGED <<write_idx, frame_count, frames, sem, total_frames>>]_vars

\* C1 witness: two completions were dropped on a full queue
C1_Witness ==
    /\ is_running
    /\ frame_count = AUDIO_BUFFER_COUNT
    /\ sem = AUDIO_BUFFER_COUNT
    /\ overrun_count = 2

\* C2: in a capture run, the k-th frame inmp441_read_frame returns is the
\* k-th frame the producer accepted in that run, with the content it was
\* enqueued with (stated for the first run, before any stop).
C2_EachFrameOnceInOrder ==
    [][(a_pc = "copy" /\ a_pc' = "dec" /\ is_running /\ h_run = 1)
         => a_frame' = [id |-> h_base + h_nread', run |-> h_run,
                        size |-> AUDIO_FRAME_SIZE]]_vars

\* C5: after a resume, every frame inmp441_read_frame returns was enqueued
\* after that inmp441_start.
C5_NoLateFrameAfterResume ==
    [][(a_pc = "copy" /\ a_pc' = "dec" /\ h_run >= 2)
         => a_frame'.run = h_run]_vars

\* C6: while the producer is stopped, no half-transfer, full-transfer or
\* error callback changes write_idx, frame_count, total_frames or the
\* semaphore count.
C6_NoEnqueueWhileStopped ==
    [][(Interrupts /\ ~is_running)
         => UNCHANGED <<write_idx, frame_count, total_frames, sem>>]_vars

\* C6 witness: a callback has fired on a producer stopped with frames queued
C6_Witness ==
    /\ ~is_running
    /\ h_run >= 1
    /\ h_idle_irq
    /\ sem > 0

\* C3: the pointer and the sample count the STT thread hands to
\* audio_encode_wav are those of one feed call, the last one whose stores
\* completed; never the pointer of one call with the count of another.
C3_HandoffFromOneFeed ==
    [][(s_pc = "lock" /\ s_pc' \in {"encode", "enc_fail"})
         => /\ s_ptr' = h_fed.ptr
            /\ s_samples' = h_fed.samples]_vars

\* C3 witness: the encoder runs on a hand-off that two feed calls wrote since
\* the previous read
C3_Witness ==
    /\ s_pc = "encode"
    /\ h_taken >= 2
    /\ s_ptr = h_fed.ptr
    /\ s_samples = h_fed.samples

\* the worker appends a frame to the recording buffer
AppendsToRecording == rec_size' > rec_size

C8_NoStrandedRecording ==
    (/\ stt_running
     /\ s_pc = "recv"
     /\ stt_state = "IDLE"
     /\ data_ready
     /\ f_pc \in {"none", "ret"})
        => \E i \in 1..Len(mbox) : mbox[i] = STT_MSG_NEW_RECORDING

\* C9 (as stated): every call stores pointer, count and data_ready under the
\* lock, then posts one notification if the state is IDLE and none otherwise.
C9_EveryCallStoresAndPosts ==
    /\ [][(f_pc = "entry" /\ f_pc' # "entry") => f_pc' = "lock"]_vars
    /\ [](f_pc \in {"len", "rdy"} => stt_lock = "feed")
    /\ [][(f_pc = "rdy" /\ f_pc' = "chk")
            => /\ data_ready'
               /\ pcm_ptr' = f_ptr
               /\ pcm_samples' = f_samples]_vars
    /\ [][(f_pc = "chk" /\ f_pc' = "ret")
            => mbox' = IF stt_state = "IDLE"
                       THEN Append(mbox, STT_MSG_NEW_RECORDING)
                       ELSE mbox]_vars

\* C9 (amended): a call made while the manager is not running returns without
\* storing or posting anything; a call made while it is running stores
\* pointer, count and data_ready under the lock, then calls rt_mb_send once
\* if the state is IDLE (the mail is dropped when the mailbox already holds
\* MBOX_SIZE mails) and posts nothing otherwise.
C9_RunningCallStoresAndNotifiesIdle ==
    /\ [][(f_pc = "entry" /\ f_pc' # "entry")
            => /\ f_pc' = IF stt_running THEN "lock" ELSE "ret"
               /\ UNCHANGED <<pcm_ptr, pcm_samples, data_ready, mbox>>]_vars
    /\ [](f_pc \in {"len", "rdy"} => stt_lock = "feed")
    /\ [][(f_pc = "rdy" /\ f_pc' = "chk")
            => /\ data_ready'
               /\ pcm_ptr' = f_ptr
               /\ pcm_samples' = f_samples
               /\ stt_lock' = "none"]_vars
    /\ [][(f_pc = "chk" /\ f_pc' = "ret")
            => mbox' = IF stt_state # "IDLE" THEN mbox
                       ELSE IF Len(mbox) < MBOX_SIZE
                       THEN Append(mbox, STT_MSG_NEW_RECORDING)
                       ELSE mbox]_vars

\* C9 witness: a call on a running manager has overwritten an earlier
\* hand-off and returned after posting to the idle thread
C9_Witness ==
    /\ f_pc = "ret"
    /\ stt_running
    /\ stt_state = "IDLE"
    /\ h_pending >= 2
    /\ data_ready
    /\ pcm_ptr = f_ptr
    /\ pcm_samples = f_samples
    /\ Len(mbox) >= 2

\* C10: the STT thread starts an encode only with data_ready set, a non-null
\* pointer and a feed completed since the previous read; a notification that
\* finds data_ready clear goes back to IDLE with nothing encoded; data_ready
\* is clear once the encode call has returned and only a feed sets it again.
C10_EncodeOnlyFreshData ==
    /\ [][(s_pc = "lock" /\ s_pc' \in {"encode", "enc_fail"})
            => (data_ready /\ pcm_ptr # RT_NULL /\ h_pending >= 1)]_vars
    /\ [][(s_pc = "lock" /\ s_pc' # "lock" /\ ~data_ready)
            => (s_pc' = "to_idle" /\ UNCHANGED <<data_ready, s_ptr, s_samples>>)]_vars
    /\ [][(s_pc = "encode" /\ s_pc' # "encode") => ~data_ready']_vars
    /\ []((h_pending = 0 /\ s_pc # "encode") => ~data_ready)
    /\ [][(~data_ready /\ data_ready') => f_pc = "rdy"]_vars

\* C10 witness: an encode is in progress on a recording fed since the
\* previous read
C10_Witness ==
    /\ s_pc = "encode"
    /\ data_ready
    /\ h_taken >= 1
    /\ h_pending = 0
    /\ Len(mbox) >= 1

\* one pass of the worker through the recording state machine
FsmPass == a_pc = "fsm" /\ a_pc' # "fsm"

\* C11: a recording finalized with a computed duration below
\* VAD_MIN_RECORD_MS does not reach the speech callback: the state returns to
\* IDLE, the fill length is 0 and speech_detected is unchanged.
C11_ShortRecordingDiscarded ==
    [][(FsmPass /\ h_cause' # "none" /\ h_dur' < VAD_MIN_RECORD_MS)
         => /\ f_pc' = "none"
            /\ a_pc' = "loop"
            /\ audio_state' = "IDLE"
            /\ rec_size' = 0
            /\ UNCHANGED <<speech_detected_cnt, f_ptr, f_samples>>]_vars

\* C11 witness: a recording with frames in it has just been discarded as
\* too short
C11_Witness ==
    /\ h_cause = "hangover"
    /\ h_dur < VAD_MIN_RECORD_MS
    /\ h_nspeech >= 1
    /\ audio_state = "IDLE"
    /\ rec_size = 0
    /\ speech_detected_cnt = 0

\* C12: a recording that ends by hangover is finalized on exactly the
\* VAD_HANGOVER_FRAMES-th consecutive frame without speech.
C12_FinalizedOnHangoverFrame ==
    [][(FsmPass /\ h_cause' = "hangover")
         => h_silent' = VAD_HANGOVER_FRAMES]_vars

C14_FullBufferFinalizes ==
    [][(FsmPass /\ audio_state = "RECORDING"
            /\ rec_size + a_frame.size > RecCapacity)
         => h_cause' # "none"]_vars

C16_NoSpeechDuringCalibration ==
    [][(FsmPass /\ a_frame.id <= VAD_CALIBRATION_FRAMES)
         => /\ ~h_speech'
            /\ audio_state' = "IDLE"
            /\ rec_size' = 0]_vars

\* C16 witness: the calibration has just ended on loud frames (the smoothed
\* energy is above the threshold vad_init had set) with no speech reported
C16_Witness ==
    /\ a_pc = "loop"
    /\ a_frame.id = VAD_CALIBRATION_FRAMES
    /\ v_calibrated
    /\ v_smoothed > VAD_ENERGY_THRESHOLD_INIT
    /\ ~h_speech
    /\ audio_state = "IDLE"

\* C17: after the calibration, on the VAD_MIN_SPEECH_FRAMES-th consecutive
\* frame with the zero-crossing count inside the window and an energy above
\* VAD_THRESHOLD_RATIO times the noise floor, the detector reports speech.
C17_SpeechWithinMinFrames ==
    [][(FsmPass /\ h_loud' = VAD_MIN_SPEECH_FRAMES) => h_speech']_vars

\* C18: whenever no inmp441_read_frame call is in progress, the semaphore
\* count equals frame_count.
C18_TokenPerQueuedFrame ==
    a_pc \in {"off", "loop", "fsm", "callback", "exit"} => sem = frame_count

\* C19: the STT state is written only by a thread that holds the manager
\* lock, and stt_manager_feed_recording reads it holding that lock.
C19_SharedStateUnderLock ==
    /\ [][stt_state' # stt_state => stt_lock = "stt"]_vars
    /\ [][(f_pc = "chk" /\ f_pc' = "ret") => stt_lock = "feed"]_vars

\* C20: when stt_baidu_recognize fails the state becomes ERROR with last_text
\* "ERR:<err_no>", and the state then returns to IDLE with the capture
\* running again.
C20_RecoversFromRecognitionError ==
    /\ [][(s_pc = "result" /\ s_pc' = "show" /\ ~s_ret)
            => (stt_state' = "ERROR" /\ last_text' = "ERR")]_vars
    /\ [][(s_pc = "show" /\ s_pc' = "recheck" /\ ~s_ret)
            => (stt_state' = "IDLE" /\ is_running)]_vars

\* C21: from each of ENCODING, UPLOADING, DISPLAYING and ERROR the STT thread
\* eventually sets the state back to IDLE, on every path (no data, too short,
\* encode failure, recognition failure, success), given that the calls it
\* makes return.
C21_EventuallyIdle ==
    \A st \in {"ENCODING", "UPLOADING", "DISPLAYING", "ERROR"} :
        (stt_state = st) ~> (stt_state = "IDLE")

\* C21 witness: the thread is back in IDLE at its mailbox wait after a
\* failed recognition
C21_Witness ==
    /\ stt_state = "IDLE"
    /\ s_pc = "recv"
    /\ last_text = "ERR"
    /\ ~s_ret
    /\ h_taken >= 1

\* C22: each HAL_SAI_ErrorCallback adds exactly 1 to dma_errors and leaves the
\* DMA reception armed if and only if is_running is true; it changes neither
\* is_running, nor the queue (indices, frame_count, slots, semaphore), nor the
\* position or state of the worker, of the recording state machine or of the
\* STT thread.
C22_ErrorCountedAndRearmed ==
    [][dma_errors' # dma_errors
         => /\ dma_errors' = dma_errors + 1
            /\ dma_armed' = is_running
            /\ UNCHANGED <<is_running, write_idx, read_idx, frame_count, sem,
                           frames, total_frames, overrun_count>>
            /\ UNCHANGED <<workerVars, feedVars, sttVars>>]_vars

\* C22 witness: an error has been counted on a producer that is running with
\* frames queued and a reader waiting, and the reception is armed
C22_Witness ==
    /\ dma_errors >= 1
    /\ is_running
    /\ dma_armed
    /\ frame_count >= 1
    /\ a_running
    /\ a_pc = "sem"

\* C23: once audio_process_stop has cleared running, the audio worker
\* eventually leaves its loop and exits, wherever it is, also when it waits
\* in inmp441_read_frame and the producer has been stopped (the case stated
\* here: with a running producer the next frame wakes the worker).
C23_WorkerExitsAfterStop ==
    (~a_running /\ a_pc # "off" /\ ~is_running) ~> (a_pc = "exit")

\* C24: when a step of inmp441_init or of audio_process_init fails, the
\* initialization returns an error and leaves the device not initialized,
\* the producer stopped and the worker thread not started; inmp441_start on
\* the device that is not initialized returns -RT_ERROR and starts nothing.
C24_FailedInitLeavesNothing ==
    /\ (api.call = "audio_capture_system_init" /\ api.arg # "none")
          => /\ api.ret \in {RT_ERROR, RT_ENOMEM}
             /\ ~is_initialized
             /\ ~g_audio_system_initialized
             /\ ~is_running /\ ~dma_armed
             /\ ~a_running /\ a_pc = "off"
    /\ (api.call = "inmp441_start" /\ api.on = "uninitialized")
          => /\ api.ret = RT_ERROR
             /\ ~is_running /\ ~dma_armed

\* C24 witness: audio_process_init has failed on the recording buffer after
\* inmp441_init had succeeded
C24_Witness ==
    /\ api.call = "audio_capture_system_init"
    /\ api.arg = "recording_buffer"
    /\ api.ret = RT_ENOMEM
    /\ ~is_initialized
    /\ a_pc = "off"

\* C25: inmp441_stop on a stopped device and inmp441_start on a running
\* device return RT_EOK and change nothing of the device (is_running, the
\* indices, frame_count, the slots, the semaphore, the counters), so a
\* second stop or start in a row leaves the state the first one left.
C25_RepeatedStartStopNoOp ==
    /\ [][(ApiStop /\ ~is_running)
            => (api'.ret = RT_EOK /\ UNCHANGED drvVars)]_vars
    /\ [][((\E hal_ok \in BOOLEAN : ApiStart(hal_ok)) /\ is_running)
            => (api'.ret = RT_EOK /\ UNCHANGED drvVars)]_vars

\* C25 witness: inmp441_start has been called on a running device with two
\* frames queued, and they are still queued
C25_Witness ==
    /\ api.call = "inmp441_start"
    /\ api.on = "running"
    /\ api.ret = RT_EOK
    /\ is_running
    /\ frame_count = 2
    /\ write_idx = 2
    /\ read_idx = 0

\* C26: a call of inmp441_read_frame on a running device with a frame
\* argument, during which no frame is queued and none arrives before the
\* timeout, returns -RT_ETIMEOUT and leaves read_idx, frame_count and the
\* slots as they were; -RT_ERROR is returned for a stopped device or a null
\* frame argument.
C26_TimeoutLeavesQueue ==
    /\ [][((\E malloc_ok \in BOOLEAN : ApiRead(TRUE, malloc_ok))
             /\ is_running /\ frame_count = 0)
            => /\ api'.ret = RT_ETIMEOUT
               /\ UNCHANGED <<read_idx, frame_count, frames>>]_vars
    /\ [][((\E frame_ok, malloc_ok \in BOOLEAN : ApiRead(frame_ok, malloc_ok))
             /\ (~is_running \/ api'.arg = "RT_NULL"))
            => /\ api'.ret = RT_ERROR
               /\ UNCHANGED <<read_idx, frame_count, frames>>]_vars

\* C27: in IDLE a frame without speech changes neither the state, nor the
\* fill length, nor the hangover counter, nor the start time; a frame with
\* speech moves to RECORDING with the fill length equal to the frame's size,
\* the start time set to the current time and the hangover counter set to
\* VAD_HANGOVER_FRAMES.
C27_IdleToRecording ==
    /\ [][(FsmPass /\ audio_state = "IDLE" /\ ~h_speech')
            => UNCHANGED <<audio_state, rec_size, vad_hangover_count,
                           rec_start_time>>]_vars
    /\ [][(FsmPass /\ audio_state = "IDLE" /\ h_speech')
            => /\ audio_state' = "RECORDING"
               /\ rec_size' = a_frame.size
               /\ rec_start_time' = rt_tick_get
               /\ vad_hangover_count' = VAD_HANGOVER_FRAMES]_vars

\* C27 witness: a second recording has just started on a frame with speech,
\* after a delivered one
C27_Witness ==
    /\ audio_state = "RECORDING"
    /\ a_pc = "loop"
    /\ speech_detected_cnt = 1
    /\ h_nspeech = 1
    /\ rec_size = AUDIO_FRAME_SIZE
    /\ vad_hangover_count = VAD_HANGOVER_FRAMES
    /\ rec_start_time = total_frames
    /\ total_frames >= VAD_HANGOVER_FRAMES + 4

\* C28: whenever the state machine is in IDLE the fill length of the
\* recording is 0: every finalization (delivered, discarded as too short,
\* forced by a full buffer) leaves IDLE with recording.size reset to 0.
C28_IdleMeansEmpty ==
    /\ [](audio_state = "IDLE" => rec_size = 0)
    /\ [][(audio_state = "RECORDING" /\ audio_state' = "IDLE")
            => rec_size' = 0]_vars

\* C28 witness: back in IDLE with the buffer empty after a recording that a
\* full buffer ended has been delivered
C28_Witness ==
    /\ audio_state = "IDLE"
    /\ a_pc = "loop"
    /\ rec_size = 0
    /\ h_cause = "full"
    /\ speech_detected_cnt = 1
    /\ f_samples = (RecCapacity \div AUDIO_FRAME_SIZE) * AUDIO_FRAME_SIZE

\* C29: after the calibration the detector returns true on a frame if and
\* only if that frame and the VAD_MIN_SPEECH_FRAMES - 1 frames before it
\* (frames of the calibration do not count) each had a smoothed energy above
\* the threshold and a zero-crossing count inside the window; one frame that
\* does not qualify resets the run counter to 0.
C29_SpeechIffMinRun ==
    /\ [][(FsmPass /\ v_calibrated)
            => (h_speech' = (h_qual' >= VAD_MIN_SPEECH_FRAMES))]_vars
    /\ [][(FsmPass /\ v_calibrated /\ h_qual' = 0) => v_speech_cnt' = 0]_vars

\* C29 witness: speech is reported on the VAD_MIN_SPEECH_FRAMES-th frame of a
\* run that began after a frame that did not qualify
C29_Witness ==
    /\ v_calibrated
    /\ a_pc = "loop"
    /\ h_speech
    /\ h_qual = VAD_MIN_SPEECH_FRAMES
    /\ v_speech_cnt = VAD_MIN_SPEECH_FRAMES
    /\ a_frame.id > VAD_CALIBRATION_FRAMES + VAD_MIN_SPEECH_FRAMES

\* C30: the calibration completes on exactly the VAD_CALIBRATION_FRAMES-th
\* frame processed after vad_init, whatever the energies of the frames, and
\* once the calibrated flag is set no later frame clears it.
C30_CalibrationBoundedByCount ==
    /\ [][FsmPass
            => (v_calibrated' = (a_frame.id >= VAD_CALIBRATION_FRAMES))]_vars
    /\ [][v_calibrated => v_calibrated']_vars

\* C30 witness: the calibration has ended on its last frame after frames
\* that were all loud (the noise floor is the higher of the two energies)
C30_Witness ==
    /\ a_pc = "loop"
    /\ a_frame.id = VAD_CALIBRATION_FRAMES
    /\ v_cal_cnt = VAD_CALIBRATION_FRAMES
    /\ v_calibrated
    /\ v_noise_floor = 40
    /\ v_threshold = 40 * VAD_THRESHOLD_RATIO

\* C31 (as stated): once calibrated, every frame whose energy is below half
\* the current threshold moves the noise floor toward that energy (the slow
\* exponential filter), and every other frame leaves the noise floor as it was.
C31_FloorFollowsEveryQuietFrame ==
    [][(FsmPass /\ v_calibrated)
         => IF h_energy' * 2 < v_threshold
            THEN v_noise_floor' =
                    Mix(v_noise_floor, h_energy', VAD_NOISE_FLOOR_ALPHA)
            ELSE UNCHANGED v_noise_floor]_vars

\* C31 (amended): once calibrated, the noise floor is moved toward the frame
\* energy, and the threshold recomputed from it, on exactly the frames that
\* are not classified as speech, come after more than 10 frames in a row not
\* classified as speech, and have an energy below half the current
\* threshold; every other frame leaves noise floor and threshold unchanged.
C31_FloorFollowsSettledQuietFrames ==
    [][(FsmPass /\ v_calibrated)
         => IF /\ h_qual' = 0
               /\ v_silence_cnt' > 10
               /\ h_energy' * 2 < v_threshold
            THEN /\ v_noise_floor' =
                      Mix(v_noise_floor, h_energy', VAD_NOISE_FLOOR_ALPHA)
                 /\ v_threshold' = v_noise_floor' * VAD_THRESHOLD_RATIO
            ELSE UNCHANGED <<v_noise_floor, v_threshold>>]_vars

\* C31 witness: after a calibration on loud frames, the 11th quiet frame in
\* a row has lowered the noise floor and the threshold
C31_Witness ==
    /\ v_calibrated
    /\ a_pc = "loop"
    /\ v_silence_cnt = 11
    /\ h_energy = 10
    /\ v_noise_floor = 38
    /\ v_threshold = 38 * VAD_THRESHOLD_RATIO
    /\ a_frame.id = VAD_CALIBRATION_FRAMES + 11

\* C32: in every state after the calibration has completed the threshold is
\* VAD_THRESHOLD_RATIO times the noise floor, and no step made after the
\* calibration changes the noise floor without recomputing the threshold.
C32_ThresholdTracksFloor ==
    /\ [](v_calibrated => v_threshold = v_noise_floor * VAD_THRESHOLD_RATIO)
    /\ [][(v_calibrated /\ v_noise_floor' # v_noise_floor)
            => /\ v_threshold' # v_threshold
               /\ v_threshold' = v_noise_floor' * VAD_THRESHOLD_RATIO]_vars

\* C32 witness: the noise floor has been adapted twice since the calibration
\* and the threshold has followed
C32_Witness ==
    /\ v_calibrated
    /\ a_pc = "loop"
    /\ v_silence_cnt = 12
    /\ v_noise_floor = 36
    /\ v_threshold = 108

\* a frame without samples to read: the null pointer, a null buffer, or a
\* size of zero
Degenerate(frame) == frame.null \/ frame.buffer_null \/ frame.size = 0

\* C33: on a null frame, a frame with a null buffer and a frame with zero
\* samples, audio_calculate_energy returns 0, vad_calculate_zcr returns 0 and
\* the detector reports no speech, and no call faults.
C33_DegenerateFramesAreSilent ==
    (d_out.n > 0 /\ Degenerate(d_out.frame))
        => /\ ~d_out.fault
           /\ d_out.energy = 0
           /\ d_out.zcr = 0
           /\ ~d_out.speech

\* C34: whenever no inmp441_read_frame call is between its advance of
\* read_idx and its decrement, 0 <= frame_count <= AUDIO_BUFFER_COUNT and
\* write_idx = (read_idx + frame_count) mod AUDIO_BUFFER_COUNT, and on a
\* running producer frame_count is the number of frames enqueued minus the
\* number dequeued since the last start; frame_count never goes below 0.
C34_RingConsistent ==
    a_pc # "dec"
        => /\ frame_count >= 0
           /\ frame_count <= AUDIO_BUFFER_COUNT
           /\ write_idx = (read_idx + frame_count) % AUDIO_BUFFER_COUNT
           /\ is_running => frame_count = (total_frames - h_base) - h_nread

\* the full test of process_dma_data answers "full"
ReportsFull == frame_count < 0 \/ frame_count >= AUDIO_BUFFER_COUNT

\* C35: with the producer running and the worker started, the queue does not
\* stay reported as full: the worker eventually takes a frame out, so that
\* completions are accepted again, after any number of stop / start cycles.
C35_CaptureKeepsFlowing ==
    (is_running /\ a_running /\ ReportsFull)
        ~> (~is_running \/ ~ReportsFull)

\* C36: a call of inmp441_read_frame that returns -RT_ENOMEM leaves the
\* transport as it was before the call: read_idx, frame_count and the slots
\* unchanged (the frame stays queued for a later read) and the semaphore
\* count unchanged (the token taken for the frame is not lost).
C36_FailedReadKeepsFrameAndToken ==
    [][((\E frame_ok, malloc_ok \in BOOLEAN : ApiRead(frame_ok, malloc_ok))
          /\ api'.ret = RT_ENOMEM)
         => UNCHANGED <<read_idx, frame_count, frames, write_idx, sem>>]_vars

\* C37: in every state the fill length of the recording is at most its
\* capacity and a whole multiple of the frame size, and every append, in any
\* state and branch, adds one frame that fits below the capacity.
C37_RecordingWithinCapacity ==
    /\ [](/\ rec_size >= 0
          /\ rec_size <= RecCapacity
          /\ rec_size % AUDIO_FRAME_SIZE = 0)
    /\ [][rec_size' > rec_size
            => /\ FsmPass
               /\ rec_size' = rec_size + a_frame.size
               /\ rec_size + a_frame.size <= RecCapacity]_vars

\* C37 witness: the recording goes on with the buffer filled to the last
\* whole frame, a frame of the hangover having been left out
C37_Witness ==
    /\ audio_state = "RECORDING"
    /\ a_pc = "loop"
    /\ rec_size = (RecCapacity \div AUDIO_FRAME_SIZE) * AUDIO_FRAME_SIZE
    /\ rec_size + AUDIO_FRAME_SIZE > RecCapacity
    /\ h_silent >= 1
    /\ h_nspeech + h_silent > RecCapacity \div AUDIO_FRAME_SIZE

\* C38: the pause and resume around the upload leave the producer as they
\* found it: when the capture was already stopped at the pause, it is still
\* stopped once the resume has been made.
C38_ResumeRestoresStoppedCapture ==
    [][(s_pc = "resume" /\ s_pc' = "result" /\ ~h_was_running)
         => ~is_running']_vars

\* the feed call made from the worker's callback (the audio-process lock
\* held) waits for the manager lock, which the STT thread holds
WorkerWaitsForStt == f_pc = "lock" /\ stt_lock = "stt"

\* the STT thread waits for a mail, which a feed call posts, or for the
\* manager lock, which a feed call holds
SttWaitsForWorker ==
    \/ s_pc = "recv" /\ mbox = <<>>
    \/ s_pc = "lock" /\ stt_lock = "feed"

\* inmp441_read_frame between rt_mutex_take(dev->lock) and its release
DeviceLockHeld == a_pc \in {"copy", "dec"}

stt_state_t ==
    {"IDLE", "RECORDING", "ENCODING", "UPLOADING", "DISPLAYING", "ERROR"}

\* the moves of ctx->state the claim allows
HandoffMoves ==
    { <<"IDLE", "ENCODING">>,
      <<"ENCODING", "IDLE">>, <<"ENCODING", "ERROR">>,
      <<"ENCODING", "UPLOADING">>,
      <<"UPLOADING", "DISPLAYING">>, <<"UPLOADING", "ERROR">>,
      <<"DISPLAYING", "IDLE">>, <<"ERROR", "IDLE">> }

\* C40: ctx->state changes only along IDLE -> ENCODING -> (IDLE | ERROR |
\* UPLOADING), UPLOADING -> (DISPLAYING | ERROR), DISPLAYING -> IDLE and
\* ERROR -> IDLE, so UPLOADING directly follows ENCODING and DISPLAYING
\* directly follows UPLOADING; STT_STATE_RECORDING is never entered.
C40_HandoffStateMoves ==
    /\ [](stt_state \in stt_state_t \ {"RECORDING"})
    /\ [][stt_state' # stt_state
            => <<stt_state, stt_state'>> \in HandoffMoves]_vars

\* C40 witness: back in IDLE after a recognised recording went through
\* ENCODING, UPLOADING and DISPLAYING
C40_Witness ==
    /\ stt_state = "IDLE"
    /\ s_pc = "recheck"
    /\ s_ret
    /\ last_text = "text"
    /\ h_taken >= 1
====
